---- MODULE Spec2Model ----
(***************************************************************************)
(* Barcode detection and normalization pipeline of catat-buku-rbr.         *)
(*                                                                         *)
(*   - normalizeToISBN: the pure normalizer (both scanner components carry *)
(*     the same function).                                                 *)
(*   - the BarcodeDetector/ZXing scanner component (the ISBNScanner that   *)
(*     takes an isActive prop): one component instance, its refs, the      *)
(*     closures of its effect runs ("activations") and every asynchronous  *)
(*     continuation of start(), tick() and the ZXing callback.             *)
(*   - the Quagga scanner component (startScanning / stopScanning /        *)
(*     Decode Still).                                                      *)
(*                                                                         *)
(* Text is modelled as a sequence of one-character strings.  The browser   *)
(* (camera, BarcodeDetector, timers), the ZXing and Quagga libraries and   *)
(* the parent page are the environment: their inputs are chosen with \E.   *)
(* Of the display state the status line is kept; lastDetected, the         *)
(* usingBarcodeDetector title and the torch are written and never read by  *)
(* any handler, and are left out.                                          *)
(*                                                                         *)
(*   - the record-storage API (/api/books and /api/books/:id) over its     *)
(*     collection, and the List page that groups what GET /api/books       *)
(*     returns.  Of a record the title, the author and the two dates are   *)
(*     kept; isbn, cover_url, year, publisher, genre and description are   *)
(*     copied from the payload the same way and no handler reads them.     *)
(***************************************************************************)
EXTENDS Integers, Sequences, FiniteSets, TLC

\* ------------------------------------------------------------------ bounds

\* Effect runs with isActive = true that one component instance may see.
MaxActivations == 1
\* detector.detect() calls that may be in flight together.
MaxPending == 2
\* decodeFromVideoDevice calls of one component instance.
MaxZXStarts == 2
\* startScanning cycles of the Quagga component.
MaxCycles == 2
\* Decode Still requests of the Quagga component in flight together.
MaxStills == 2
\* Hyphens or spaces inserted into a candidate text.
MaxSeps == 2
\* onISBNDetected calls recorded.
MaxEmits == 2
\* Records created in the collection.
MaxBooks == 2
\* Instants the server clock moves on.
MaxClock == 2

\* ------------------------------------------------------------- normalizer

Digits == {"0", "1", "2", "3", "4", "5", "6", "7", "8", "9"}

\* JavaScript's null; no accepted output is empty, so the empty text is free.
Null == << >>

\* text.replace(/[^0-9Xx]/g, "")
KeepChar(c) == c \in Digits \cup {"X", "x"}

Strip(text) == SelectSeq(text, KeepChar)

\* /^(978|979)\d{10}$/.test(cleaned)
MatchesISBN13(cleaned) ==
    /\ Len(cleaned) = 13
    /\ cleaned[1] = "9" /\ cleaned[2] = "7" /\ cleaned[3] \in {"8", "9"}
    /\ \A i \in 4..13 : cleaned[i] \in Digits

\* /^\d{9}[\dXx]$/.test(cleaned)
MatchesISBN10(cleaned) ==
    /\ Len(cleaned) = 10
    /\ \A i \in 1..9 : cleaned[i] \in Digits
    /\ cleaned[10] \in Digits \cup {"X", "x"}

\* String.prototype.toUpperCase on the characters a cleaned text can hold.
UpperChar(c) == IF c = "x" THEN "X" ELSE c

toUpperCase(s) == [i \in 1..Len(s) |-> UpperChar(s[i])]

\* A seeded slip: the ISBN-10 branch returns cleaned without upper-casing.
normalizeNoUpper(text) ==
    LET cleaned == Strip(text)
    IN  IF MatchesISBN13(cleaned) THEN cleaned
        ELSE IF MatchesISBN10(cleaned) THEN cleaned
        ELSE Null

\* A seeded slip: the regular expressions run on text, not on cleaned.
normalizeNoStrip(text) ==
    IF MatchesISBN13(text) THEN text
    ELSE IF MatchesISBN10(text) THEN toUpperCase(text)
    ELSE Null

\* A seeded slip: the ISBN-13 branch drops the check digit it does not verify.
normalizeDropCheck(text) ==
    LET cleaned == Strip(text)
    IN  IF MatchesISBN13(cleaned) THEN SubSeq(cleaned, 1, 12)
        ELSE IF MatchesISBN10(cleaned) THEN toUpperCase(cleaned)
        ELSE Null

\* A seeded slip: the ISBN-13 branch takes any 13 digits, whatever the prefix.
normalizeAnyPrefix(text) ==
    LET cleaned == Strip(text)
    IN  IF Len(cleaned) = 13 /\ \A i \in 1..13 : cleaned[i] \in Digits THEN cleaned
        ELSE IF MatchesISBN10(cleaned) THEN toUpperCase(cleaned)
        ELSE Null

normalizeToISBN(text) ==
    LET cleaned == Strip(text)
    IN  IF MatchesISBN13(cleaned) THEN cleaned
        ELSE IF MatchesISBN10(cleaned) THEN toUpperCase(cleaned)
        ELSE Null

\* ------------------------------------------------- texts the decoders give

T13 == <<"9","7","8","-","0","1","4","3","1","2","7","7","4","1">>
T10 == <<"0","3","0","6","4","0","6","1","5","x">>
TBad == <<"1","2","3">>
TEmpty == << >>

\* rawValue / getText() / codeResult.code of one detection.
RawTexts == {T13, T10, TBad, TEmpty}

\* ------------------------------------------------------------------ state

VARIABLES
    component,            \* what runs: "native", "quagga", "none" (normalizer), "api", "list"
    mounted,              \* the component instance is mounted (videoRef.current is set)
    isActive,             \* the isActive prop
    cur,                  \* activations so far; the latest effect run with isActive = true
    isMounted,            \* the isMounted variable of each activation's closure
    cancelledAt,          \* the activation's cleanup ran while getUserMedia was pending
    pc,                   \* position of each activation's start()
    hasBarcodeDetector,   \* typeof window.BarcodeDetector !== "undefined"
    streamRef,            \* streamRef.current: 0 is null, else the acquiring activation
    stream,               \* each activation's getUserMedia stream
    detectorIntervalRef,  \* detectorIntervalRef.current: 0 is null, else the activation
    timer,                \* each activation's setInterval timer
    pendingDetect,        \* detector.detect() promises in flight, per activation
    codeReaderRef,        \* codeReaderRef.current is set
    zxRunning,            \* the ZXing reader decodes continuously
    zxOwner,              \* the activation whose callback the reader holds
    zxStarts,             \* decodeFromVideoDevice calls, per activation
    status,
    toasts,               \* "Camera error" toasts raised, per activation
    emitted,              \* the onISBNDetected calls, in order
    \* the Quagga component
    isReady,
    isScanning,
    detectionLockRef,     \* detectionLockRef.current
    quagga,               \* the Quagga singleton: "stopped" or "running"
    initPending,          \* scan cycles whose Quagga.init callback is still to come
    handlers,             \* onDetected handlers registered with Quagga
    cycle,                \* startScanning calls so far
    stills,               \* decodeSingle requests in flight
    videoElRef,           \* videoElRef.current is set
    \* the normalizer applied to a text
    canon,                \* the characters of a candidate identifier
    input,                \* canon with hyphens and spaces inserted
    done,                 \* normalizeToISBN(input) has been called
    result,               \* what it returned
    \* the record-storage API and the List page
    store,                \* the documents of the books collection, in insertion order
    nextId,               \* the _id the next insertOne gives
    now,                  \* the server clock, an index into Instants
    resp,                 \* the last response of the API
    loading,              \* List: loading
    fetched,              \* List: body.books of its fetch
    booksByDate,          \* List: booksByDate
    listError,            \* List: the "Error loading books" toast was raised
    \* what the ticks were given
    watch,                \* the lists detect() resolves with are being kept
    lastResults,          \* the list the last detect() that resolved came with
    \* the Capture page with ISBN confirmation
    scanning,             \* isScanning of the page: the scanner is rendered
    bookData,             \* the book details held, or Null
    pendingIsbn,          \* the identifier waiting for confirmation, or Null
    isLookingUp,          \* "Looking up book details..." is shown
    lookupIsbn,           \* the identifier fetchBookByIsbn is in flight for, or Null
    isSaving,             \* the POST of saveBook is in flight
    toast                 \* the title of the last toast of the page

\* The activations of one component instance: MaxActivations of them, and one
\* more for the instance that is activated once again.
Acts == 1..(MaxActivations + 1)

nativeVars ==
    <<mounted, isActive, cur, isMounted, cancelledAt, pc, hasBarcodeDetector,
      streamRef, stream, detectorIntervalRef, timer, pendingDetect,
      codeReaderRef, zxRunning, zxOwner, zxStarts, toasts>>

shownVars == <<status, emitted>>

quaggaVars ==
    <<isReady, isScanning, detectionLockRef, quagga, initPending, handlers, cycle,
      stills, videoElRef>>

normVars == <<canon, input, done, result>>

apiVars == <<store, nextId, now, resp, loading, fetched, booksByDate, listError>>

obsVars == <<watch, lastResults>>

pageVars == <<scanning, bookData, pendingIsbn, isLookingUp, lookupIsbn, isSaving, toast>>

vars == <<component, nativeVars, shownVars, quaggaVars, normVars, apiVars, obsVars, pageVars>>

\* A state update of an unmounted component is dropped.
SetStatus(s) == IF mounted THEN s ELSE status

\* One onISBNDetected(isbn) call made by activation or scan cycle a.
Emission(a, isbn) == [act |-> a, isbn |-> isbn]

\* onISBNDetected(isbn)
onISBNDetected(a, isbn) == Append(emitted, Emission(a, isbn))

\* The record of calls has room for one more.
CanEmit == Len(emitted) < MaxEmits

\* The sum of a per-activation counter.
RECURSIVE SumTo(_, _)
SumTo(f, n) == IF n = 0 THEN 0 ELSE f[n] + SumTo(f, n - 1)

Total(f) == SumTo(f, MaxActivations + 1)

\* ----------------------------------------------------------------- stopScan

\* clearInterval(detectorIntervalRef.current)
ClearInterval(t, ref) == IF ref # 0 THEN [t EXCEPT ![ref] = "cleared"] ELSE t

\* streamRef.current.getTracks().forEach((t) => t.stop())
StopTracks(s, ref) == IF ref # 0 THEN [s EXCEPT ![ref] = "stopped"] ELSE s

\* codeReaderRef.current?.reset()
Reset(running) == IF codeReaderRef THEN FALSE ELSE running

\* What stopScan() reads and writes.
ScanState ==
    [detectorIntervalRef |-> detectorIntervalRef, timer |-> timer,
     zxRunning |-> zxRunning, streamRef |-> streamRef, stream |-> stream,
     status |-> status]

\* A seeded slip: stopScan() returns once it has cleared a timer.
stopScanEarlyReturn(s) ==
    IF s.detectorIntervalRef # 0
    THEN [s EXCEPT !.timer = ClearInterval(s.timer, s.detectorIntervalRef),
                   !.detectorIntervalRef = 0]
    ELSE [s EXCEPT !.zxRunning = Reset(s.zxRunning),
                   !.stream = StopTracks(s.stream, s.streamRef),
                   !.streamRef = 0,
                   !.status = IF mounted THEN "Idle" ELSE s.status]

\* stopScan() applied to the state s: every step sits in one try block whose
\* catch is empty, and setStatus("Idle") follows.
stopScan(s) ==
    [s EXCEPT !.timer = ClearInterval(s.timer, s.detectorIntervalRef),
              !.detectorIntervalRef = 0,
              !.zxRunning = Reset(s.zxRunning),
              !.stream = StopTracks(s.stream, s.streamRef),
              !.streamRef = 0,
              !.status = IF mounted THEN "Idle" ELSE s.status]

\* stopScan(), but for its setStatus("Idle")
StopScanRefs ==
    LET t == stopScan(ScanState)
    IN  /\ timer' = t.timer
        /\ detectorIntervalRef' = t.detectorIntervalRef
        /\ zxRunning' = t.zxRunning
        /\ stream' = t.stream
        /\ streamRef' = t.streamRef

\* ---------------------------------------------------------------- startZXing

\* startZXing() called by activation a: the reader is created on first use and
\* decodeFromVideoDevice hands it the callback that closes over a's isMounted.
StartZXing(a) ==
    /\ Total(zxStarts) < MaxZXStarts
    /\ codeReaderRef' = TRUE
    /\ zxRunning' = TRUE
    /\ zxOwner' = a
    /\ zxStarts' = [zxStarts EXCEPT ![a] = @ + 1]
    /\ status' = SetStatus("Scanning...")

\* -------------------------------------------------------------------- start

\* start() after the camera is acquired and the video plays: the strategy.
SelectStrategy(a) ==
    IF hasBarcodeDetector
    THEN \E ctorThrows \in BOOLEAN :
            /\ IF ctorThrows
               THEN \* new BarcodeDetector(...) throws: the catch of start()
                    /\ pc' = [pc EXCEPT ![a] = "failed_ctor"]
                    /\ status' = SetStatus("Camera error")
                    /\ toasts' = [toasts EXCEPT ![a] = @ + 1]
                    /\ UNCHANGED <<timer, detectorIntervalRef>>
               ELSE /\ pc' = [pc EXCEPT ![a] = "done"]
                    /\ status' = SetStatus("Scanning...")
                    /\ timer' = [timer EXCEPT ![a] = "live"]
                    /\ detectorIntervalRef' = a
                    /\ UNCHANGED toasts
            /\ UNCHANGED <<codeReaderRef, zxRunning, zxOwner, zxStarts>>
    ELSE /\ StartZXing(a)
         /\ pc' = [pc EXCEPT ![a] = "done"]
         /\ UNCHANGED <<timer, detectorIntervalRef, toasts>>

\* getUserMedia resolves: streamRef.current = stream, then video.play() is
\* awaited when the video element is still there.
GumResolve(a) ==
    /\ component = "native"
    /\ pc[a] = "gum"
    /\ stream' = [stream EXCEPT ![a] = "live"]
    /\ streamRef' = a
    /\ IF mounted
       THEN /\ pc' = [pc EXCEPT ![a] = "play"]
            /\ UNCHANGED <<timer, detectorIntervalRef, codeReaderRef, zxRunning,
                           zxOwner, zxStarts, status, toasts>>
       ELSE SelectStrategy(a)
    /\ UNCHANGED <<component, apiVars, obsVars, pageVars, quaggaVars, normVars, mounted, isActive, cur, isMounted, cancelledAt,
                   hasBarcodeDetector, pendingDetect, emitted>>

\* A seeded slip: the catch of start() shows the status and raises no toast.
GumRejectSilent(a) ==
    /\ component = "native"
    /\ pc[a] = "gum"
    /\ pc' = [pc EXCEPT ![a] = "failed_gum"]
    /\ status' = SetStatus("Camera error")
    /\ UNCHANGED <<component, apiVars, obsVars, pageVars, quaggaVars, normVars, mounted, isActive, cur, isMounted, cancelledAt,
                   hasBarcodeDetector, streamRef, stream, detectorIntervalRef, timer,
                   pendingDetect, codeReaderRef, zxRunning, zxOwner, zxStarts, toasts, emitted>>

\* getUserMedia rejects: the catch of start().
GumReject(a) ==
    /\ component = "native"
    /\ pc[a] = "gum"
    /\ pc' = [pc EXCEPT ![a] = "failed_gum"]
    /\ status' = SetStatus("Camera error")
    /\ toasts' = [toasts EXCEPT ![a] = @ + 1]
    /\ UNCHANGED <<component, apiVars, obsVars, pageVars, quaggaVars, normVars, mounted, isActive, cur, isMounted, cancelledAt,
                   hasBarcodeDetector, streamRef, stream, detectorIntervalRef, timer,
                   pendingDetect, codeReaderRef, zxRunning, zxOwner, zxStarts, emitted>>

\* videoRef.current.play() settles (a rejection is swallowed by its catch).
PlayDone(a) ==
    /\ component = "native"
    /\ pc[a] = "play"
    /\ SelectStrategy(a)
    /\ UNCHANGED <<component, apiVars, obsVars, pageVars, quaggaVars, normVars, mounted, isActive, cur, isMounted, cancelledAt,
                   hasBarcodeDetector, streamRef, stream, pendingDetect, emitted>>

\* --------------------------------------------------------------------- tick

\* The 200 ms timer fires tick(): past the guard of its first line it calls
\* detector.detect(), which stays pending until the browser settles it.  With
\* isMounted false or the video element gone tick returns and nothing changes.
Tick(a) ==
    /\ component = "native"
    /\ timer[a] = "live"
    /\ isMounted[a] /\ mounted
    /\ Total(pendingDetect) < MaxPending
    /\ pendingDetect' = [pendingDetect EXCEPT ![a] = @ + 1]
    /\ UNCHANGED <<component, apiVars, obsVars, pageVars, quaggaVars, normVars, mounted, isActive, cur, isMounted, cancelledAt, pc,
                   hasBarcodeDetector, streamRef, stream, detectorIntervalRef, timer,
                   codeReaderRef, zxRunning, zxOwner, zxStarts,
                   toasts, status, emitted>>

\* The lists a detect() call can resolve with: no detection, one, or two of
\* different texts.
ResultLists ==
    {<< >>} \cup {<<t>> : t \in RawTexts}
            \cup {<<t, u>> : t \in RawTexts, u \in RawTexts \ {TEmpty}}

\* A seeded slip: the last detection of the list is the one read.
LastCode(results) == results[Len(results)]

\* results[0].rawValue of a non-empty list
FirstCode(results) == results[1]

\* tick() resumes with an identifier: setLastDetected, setStatus("Detected"),
\* stopScan(), onISBNDetected(isbn); an exception of the caller's handler lands
\* in tick's catch, which starts ZXing.
TickAccept(a, isbn, handlerThrows) ==
    /\ CanEmit
    /\ LET t == stopScan(ScanState)
       IN  /\ timer' = t.timer
           /\ detectorIntervalRef' = t.detectorIntervalRef
           /\ stream' = t.stream
           /\ streamRef' = t.streamRef
           /\ emitted' = onISBNDetected(a, isbn)
           /\ IF handlerThrows
              THEN StartZXing(a)
              ELSE /\ zxRunning' = t.zxRunning
                   /\ status' = t.status
                   /\ UNCHANGED <<codeReaderRef, zxOwner, zxStarts>>

\* A seeded slip: a tick that finds no identifier stops the scan.
TickMissStops ==
    /\ LET t == stopScan(ScanState)
       IN  /\ timer' = t.timer
           /\ detectorIntervalRef' = t.detectorIntervalRef
           /\ stream' = t.stream
           /\ streamRef' = t.streamRef
           /\ zxRunning' = t.zxRunning
           /\ status' = t.status
    /\ UNCHANGED <<codeReaderRef, zxOwner, zxStarts, emitted>>

\* tick() found no identifier in results[0]: setStatus("Scanning...") only.
TickMiss ==
    /\ status' = SetStatus("Scanning...")
    /\ UNCHANGED <<streamRef, stream, detectorIntervalRef, timer,
                   codeReaderRef, zxRunning, zxOwner, zxStarts, emitted>>

\* detector.detect() resolves with a list of detections.
DetectResolve(a, results) ==
    /\ component = "native"
    /\ pendingDetect[a] > 0
    /\ pendingDetect' = [pendingDetect EXCEPT ![a] = @ - 1]
    /\ LET isbn == IF Len(results) > 0 THEN normalizeToISBN(FirstCode(results)) ELSE Null
       IN  IF isbn # Null
           THEN \E handlerThrows \in BOOLEAN : TickAccept(a, isbn, handlerThrows)
           ELSE TickMiss
    /\ lastResults' = IF watch THEN results ELSE lastResults
    /\ UNCHANGED <<component, apiVars, watch, pageVars, quaggaVars, normVars, mounted, isActive, cur, isMounted, cancelledAt, pc,
                   hasBarcodeDetector, toasts>>

\* detector.detect() rejects: tick's catch awaits startZXing().
DetectReject(a) ==
    /\ component = "native"
    /\ pendingDetect[a] > 0
    /\ pendingDetect' = [pendingDetect EXCEPT ![a] = @ - 1]
    /\ StartZXing(a)
    /\ UNCHANGED <<component, apiVars, obsVars, pageVars, quaggaVars, normVars, mounted, isActive, cur, isMounted, cancelledAt, pc,
                   hasBarcodeDetector, streamRef, stream, detectorIntervalRef, timer,
                   toasts, emitted>>

\* ----------------------------------------------------------- ZXing callback

\* The reader calls back with a decoded text.  With isMounted false the
\* callback returns at its first line and nothing changes.
ZXResult(decoded) ==
    /\ component = "native"
    /\ zxRunning
    /\ isMounted[zxOwner]
    /\ LET isbn == normalizeToISBN(decoded)
       IN  /\ isbn # Null
           /\ CanEmit
           /\ status' = SetStatus("Idle")
           /\ StopScanRefs
           /\ emitted' = onISBNDetected(zxOwner, isbn)
    /\ UNCHANGED <<component, apiVars, obsVars, pageVars, quaggaVars, normVars, mounted, isActive, cur, isMounted, cancelledAt, pc,
                   hasBarcodeDetector, pendingDetect, codeReaderRef, zxOwner, zxStarts, toasts>>

\* The reader calls back with no result: NotFoundException (or no error) keeps
\* "Scanning...", any other error shows "Scanner error".  A result whose text
\* does not normalize returns without a state change.
ZXError(notFound) ==
    /\ component = "native"
    /\ zxRunning
    /\ isMounted[zxOwner]
    /\ status' = SetStatus(IF notFound THEN "Scanning..." ELSE "Scanner error")
    /\ UNCHANGED <<component, apiVars, obsVars, pageVars, quaggaVars, normVars, nativeVars, emitted>>

\* ------------------------------------------------------------ the effect

\* The cleanup the effect returned: isMounted = false; stopScan().
Cleanup ==
    /\ isMounted' = IF isActive THEN [isMounted EXCEPT ![cur] = FALSE] ELSE isMounted
    /\ cancelledAt' = IF isActive /\ pc[cur] = "gum"
                      THEN [cancelledAt EXCEPT ![cur] = "gum"]
                      ELSE cancelledAt
    /\ StopScanRefs

\* isActive becomes true, for an instance that has seen fewer than most
\* activations: the cleanup of the last effect run, then start().
ActivateWithin(most) ==
    /\ component = "native"
    /\ mounted /\ ~isActive
    /\ cur < most
    /\ isActive' = TRUE
    /\ cur' = cur + 1
    /\ StopScanRefs
    /\ isMounted' = [isMounted EXCEPT ![cur + 1] = TRUE]
    /\ pc' = [pc EXCEPT ![cur + 1] = "gum"]
    /\ status' = "Starting camera..."
    /\ UNCHANGED <<component, apiVars, obsVars, pageVars, quaggaVars, normVars, mounted, cancelledAt, hasBarcodeDetector, pendingDetect,
                   codeReaderRef, zxOwner, zxStarts, toasts, emitted>>

Activate == ActivateWithin(MaxActivations)

\* The instance that has seen MaxActivations activations is activated again.
ActivateAgain ==
    /\ cur = MaxActivations
    /\ ActivateWithin(MaxActivations + 1)

\* isActive becomes false: the cleanup, then the effect body calls stopScan().
Deactivate ==
    /\ component = "native"
    /\ mounted /\ isActive
    /\ isActive' = FALSE
    /\ Cleanup
    /\ status' = "Idle"
    /\ UNCHANGED <<component, apiVars, obsVars, pageVars, quaggaVars, normVars, mounted, cur, pc, hasBarcodeDetector, pendingDetect,
                   codeReaderRef, zxOwner, zxStarts, toasts, emitted>>

\* The component unmounts: the cleanup runs and videoRef.current becomes null.
Unmount ==
    /\ component = "native"
    /\ mounted
    /\ mounted' = FALSE
    /\ Cleanup
    /\ UNCHANGED <<component, apiVars, obsVars, pageVars, quaggaVars, normVars, isActive, cur, pc, hasBarcodeDetector, pendingDetect,
                   codeReaderRef, zxOwner, zxStarts, toasts,
                   status, emitted>>

\* ------------------------------------------------------ the Quagga component

\* What stopScanning() reads and writes.
QuaggaState ==
    [quagga |-> quagga, isScanning |-> isScanning, handlers |-> handlers,
     status |-> status]

\* stopScanning() applied to the state q: Quagga.stop(); offProcessed and
\* offDetected are handed fresh functions, which unsubscribe nothing;
\* setIsScanning(false); "Camera ready" is shown when the camera is ready.
stopScanning(q) ==
    [q EXCEPT !.quagga = "stopped",
              !.isScanning = IF mounted THEN FALSE ELSE q.isScanning,
              !.status = IF mounted /\ isReady THEN "Camera ready" ELSE q.status]

\* stopScanning(), but for its setStatus
StopScanning ==
    LET t == stopScanning(QuaggaState)
    IN  /\ quagga' = t.quagga
        /\ isScanning' = t.isScanning
        /\ handlers' = t.handlers

\* startCamera()
StartCamera ==
    /\ component = "quagga"
    /\ mounted /\ ~isReady
    /\ isReady' = TRUE
    /\ status' = "Camera ready"
    /\ UNCHANGED <<component, apiVars, obsVars, pageVars, nativeVars, normVars, emitted, isScanning,
                   detectionLockRef, quagga, initPending, handlers, cycle, stills,
                   videoElRef>>

\* startScanning(): Quagga.init is given a callback, so the await that follows
\* does not wait for it and onDetected is registered at once.
StartScanning ==
    /\ component = "quagga"
    /\ mounted /\ isReady /\ ~isScanning
    /\ cycle < MaxCycles
    /\ isScanning' = TRUE
    /\ status' = "Starting scanner..."
    /\ detectionLockRef' = FALSE
    /\ cycle' = cycle + 1
    /\ initPending' = initPending \cup {cycle + 1}
    /\ handlers' = handlers + 1
    /\ UNCHANGED <<component, apiVars, obsVars, pageVars, nativeVars, normVars, emitted, isReady,
                   quagga, stills, videoElRef>>

\* The callback of Quagga.init: an error is shown and ends the scan, else
\* Quagga.start() runs and the video element is looked up.
InitDone(c, err) ==
    /\ component = "quagga"
    /\ c \in initPending
    /\ initPending' = initPending \ {c}
    /\ IF err
       THEN /\ status' = SetStatus("Scanner error")
            /\ isScanning' = IF mounted THEN FALSE ELSE isScanning
            /\ UNCHANGED <<quagga, videoElRef>>
       ELSE /\ quagga' = "running"
            /\ videoElRef' = IF mounted THEN TRUE ELSE videoElRef
            /\ status' = SetStatus("Scanning...")
            /\ UNCHANGED isScanning
    /\ UNCHANGED <<component, apiVars, obsVars, pageVars, nativeVars, normVars, emitted, isReady,
                   detectionLockRef, handlers, cycle, stills>>

\* Quagga reports a detection to every registered handler in turn: the first
\* one finds the lock open, takes it, calls onISBNDetected and stopScanning();
\* the others find it taken.  With the lock taken, an empty code or a text that
\* does not normalize, every handler returns and nothing changes.
Detected(code) ==
    /\ component = "quagga"
    /\ quagga = "running" /\ handlers > 0
    /\ ~detectionLockRef
    /\ code # TEmpty
    /\ LET isbn == normalizeToISBN(code)
       IN  /\ isbn # Null
           /\ CanEmit
           /\ detectionLockRef' = TRUE
           /\ emitted' = onISBNDetected(cycle, isbn)
           /\ StopScanning
           /\ status' = SetStatus("Camera ready")
    /\ UNCHANGED <<component, apiVars, obsVars, pageVars, nativeVars, normVars, isReady, initPending, cycle,
                   stills, videoElRef>>

\* The Stop Scan button.
StopScan ==
    /\ component = "quagga"
    /\ mounted /\ isReady /\ isScanning
    /\ StopScanning
    /\ status' = "Camera ready"
    /\ UNCHANGED <<component, apiVars, obsVars, pageVars, nativeVars, normVars, emitted, isReady,
                   detectionLockRef, initPending, cycle, stills, videoElRef>>

\* The Decode Still button: fallbackCaptureAndDecode() draws the frame and
\* asks Quagga.decodeSingle for it; without a video element it returns.
DecodeStill ==
    /\ component = "quagga"
    /\ mounted /\ isReady /\ isScanning
    /\ videoElRef
    /\ stills < MaxStills
    /\ stills' = stills + 1
    /\ status' = "Decoding still..."
    /\ UNCHANGED <<component, apiVars, obsVars, pageVars, nativeVars, normVars, emitted, isReady,
                   isScanning, detectionLockRef, quagga, initPending, handlers, cycle,
                   videoElRef>>

\* The callback of decodeSingle: an identifier is passed on and the scan
\* stopped, anything else shows "No code in still".
StillDone(code) ==
    /\ component = "quagga"
    /\ stills > 0
    /\ stills' = stills - 1
    /\ LET isbn == normalizeToISBN(code)
       IN  IF isbn # Null
           THEN /\ CanEmit
                /\ emitted' = onISBNDetected(cycle, isbn)
                /\ StopScanning
                /\ status' = SetStatus("Camera ready")
           ELSE /\ status' = SetStatus("No code in still")
                /\ UNCHANGED <<emitted, quagga, isScanning, handlers>>
    /\ UNCHANGED <<component, apiVars, obsVars, pageVars, nativeVars, normVars, isReady, detectionLockRef,
                   initPending, cycle, videoElRef>>

\* The component unmounts: the effect's cleanup calls stopScanning().
QuaggaUnmount ==
    /\ component = "quagga"
    /\ mounted
    /\ mounted' = FALSE
    /\ quagga' = "stopped"
    /\ UNCHANGED <<component, apiVars, obsVars, pageVars, isActive, cur, isMounted, cancelledAt, pc,
                   hasBarcodeDetector, streamRef, stream, detectorIntervalRef, timer,
                   pendingDetect, codeReaderRef, zxRunning, zxOwner, zxStarts, toasts, shownVars, normVars, isReady,
                   isScanning, detectionLockRef, initPending, handlers, cycle, stills,
                   videoElRef>>

\* ---------------------------------------------------- the record-storage API

\* A property the object does not have; a field the JSON body does not carry.
Undefined == <<"undefined">>

\* v ?? d
OrElse(v, d) == IF v = Undefined THEN d ELSE v

\* String.prototype.trim on texts whose only white space is the space.
RECURSIVE TrimStart(_)
TrimStart(s) == IF s # << >> /\ Head(s) = " " THEN TrimStart(Tail(s)) ELSE s

RECURSIVE TrimEnd(_)
TrimEnd(s) ==
    IF s # << >> /\ s[Len(s)] = " " THEN TrimEnd(SubSeq(s, 1, Len(s) - 1)) ELSE s

\* A seeded slip: the text is taken as it comes.
trimNothing(s) == s

trim(s) == TrimEnd(TrimStart(s))

\* new Date().toISOString() at the instants the clock shows, in order: the
\* day of the month, "T" and the time of day stand for the whole text
\* (2025-01-09T00:00:00.000Z), whose other parts have a fixed width too.
Instants ==
    << <<"0","9","T","0">>, <<"0","9","T","1">>, <<"1","0","T","0">>,
       <<"1","0","T","1">>, <<"1","1","T","0">>, <<"1","1","T","1">> >>

toISOString(t) == Instants[t + 1]

\* s.split('T')[0]
SplitT(s) ==
    IF \E i \in DOMAIN s : s[i] = "T"
    THEN LET i == CHOOSE i \in DOMAIN s : s[i] = "T" /\ \A j \in 1..(i - 1) : s[j] # "T"
         IN  SubSeq(s, 1, i - 1)
    ELSE s

\* The characters of a date or an instant, in the order of their codes.
CharOrder == <<"0", "1", "2", "3", "4", "5", "6", "7", "8", "9", "T">>

CharCode(c) == CHOOSE i \in DOMAIN CharOrder : CharOrder[i] = c

\* a.localeCompare(b), and the order MongoDB sorts strings in: negative, zero
\* or positive as a comes before, with or after b.
RECURSIVE localeCompare(_, _)
localeCompare(a, b) ==
    IF a = << >> /\ b = << >> THEN 0
    ELSE IF a = << >> THEN -1
    ELSE IF b = << >> THEN 1
    ELSE IF CharCode(Head(a)) < CharCode(Head(b)) THEN -1
    ELSE IF CharCode(Head(a)) > CharCode(Head(b)) THEN 1
    ELSE localeCompare(Tail(a), Tail(b))

\* s without its i-th element.
RemoveAt(s, i) == SubSeq(s, 1, i - 1) \o SubSeq(s, i + 1, Len(s))

\* serializeBook(doc): date_recorded is not among the fields it copies.
serializeBook(doc) ==
    [id |-> doc._id, title |-> doc.title, author |-> doc.author,
     created_at |-> doc.created_at]

\* x comes before y under sort({ date_recorded: -1, created_at: -1 }).
SortsBefore(x, y) ==
    \/ localeCompare(x.date_recorded, y.date_recorded) > 0
    \/ /\ localeCompare(x.date_recorded, y.date_recorded) = 0
       /\ localeCompare(x.created_at, y.created_at) > 0

\* collection.find().sort({ date_recorded: -1, created_at: -1 }).toArray();
\* documents that compare equal keep the order they were found in.
RECURSIVE SortDocs(_)
SortDocs(docs) ==
    IF docs = << >> THEN << >>
    ELSE LET i == CHOOSE i \in DOMAIN docs :
                      /\ \A j \in DOMAIN docs : ~SortsBefore(docs[j], docs[i])
                      /\ \A j \in 1..(i - 1) : SortsBefore(docs[i], docs[j])
         IN  <<docs[i]>> \o SortDocs(RemoveAt(docs, i))

\* docs.map(serializeBook)
MapSerialize(docs) == [i \in DOMAIN docs |-> serializeBook(docs[i])]

\* jsonResponse(body, { status }): of the body the books are kept.
jsonResponse(books, code) == [status |-> code, books |-> books]

Methods == {"GET", "POST", "PUT", "PATCH", "DELETE"}

\* The title and the authors a JSON body carries.
Titles == {Undefined, <<" ">>, <<" ", "a", " ">>}

Authors == {Undefined, <<" ">>, <<"b">>}

\* The request bodies: one that is not JSON, and objects.
Payloads ==
    {[json |-> FALSE, title |-> Undefined, authors |-> Undefined]}
        \cup [json : {TRUE}, title : Titles, authors : Authors]

\* The bodies sent with PUT and PATCH: not JSON, {}, and a title with authors.
UpdatePayloads ==
    {[json |-> FALSE, title |-> Undefined, authors |-> Undefined],
     [json |-> TRUE, title |-> Undefined, authors |-> Undefined],
     [json |-> TRUE, title |-> <<" ", "a", " ">>, authors |-> <<"b">>]}

\* handler of api/books.ts
Books(method, payload) ==
    /\ component \in {"api", "list"}
    /\ IF method = "GET"
       THEN /\ resp' = jsonResponse(MapSerialize(SortDocs(store)), 200)
            /\ UNCHANGED <<store, nextId, now>>
       ELSE IF method = "POST"
       THEN IF ~payload.json
            THEN /\ resp' = jsonResponse(<< >>, 400)
                 /\ UNCHANGED <<store, nextId, now>>
            ELSE LET title == trim(OrElse(payload.title, << >>))
                     authors == trim(OrElse(payload.authors, << >>))
                 IN  IF title = << >> \/ authors = << >>
                     THEN /\ resp' = jsonResponse(<< >>, 400)
                          /\ UNCHANGED <<store, nextId, now>>
                     ELSE \* the clock is read for date_recorded, and once
                          \* more for created_at
                          \E later \in {now, now + 1} :
                             /\ later <= MaxClock
                             /\ nextId <= MaxBooks
                             /\ LET insertDoc ==
                                        [_id |-> nextId,
                                         title |-> title,
                                         author |-> authors,
                                         date_recorded |-> SplitT(toISOString(now)),
                                         created_at |-> toISOString(later)]
                                IN  /\ store' = Append(store, insertDoc)
                                    /\ resp' = jsonResponse(<<serializeBook(insertDoc)>>, 201)
                             /\ nextId' = nextId + 1
                             /\ now' = later
       ELSE /\ resp' = jsonResponse(<< >>, 405)
            /\ UNCHANGED <<store, nextId, now>>
    /\ UNCHANGED <<component, obsVars, pageVars, nativeVars, shownVars, quaggaVars, normVars,
                   loading, fetched, booksByDate, listError>>

\* The last segment of the request path: nothing, a text that is no ObjectId,
\* or the text of an ObjectId.
NoSegment == << >>

BadSegment == <<"b", "o", "o", "k", "s">>

ObjectIdText(n) == <<CharOrder[n + 1]>>

\* The paths /api/books/<segment> and /api/books/<segment>/, as segments.
Paths ==
    LET last == {NoSegment, BadSegment} \cup {ObjectIdText(n) : n \in 1..MaxBooks}
    IN  {<<BadSegment, l>> : l \in last} \cup {<<BadSegment, l, NoSegment>> : l \in last}

\* extractId(req.url): the last segment, or the one before it when the last
\* is empty.
extractId(segments) ==
    LET id == segments[Len(segments)]
    IN  IF id = << >> /\ Len(segments) > 1 THEN segments[Len(segments) - 1] ELSE id

\* new ObjectId(id) does not throw.
IsObjectId(id) == \E n \in 1..9 : id = ObjectIdText(n)

\* The place of the document with that _id, 0 when there is none.
Find(id) ==
    IF \E i \in DOMAIN store : ObjectIdText(store[i]._id) = id
    THEN CHOOSE i \in DOMAIN store : ObjectIdText(store[i]._id) = id
    ELSE 0

\* handler of api/books/[id].ts
BookById(method, segments, payload) ==
    /\ component = "api"
    /\ LET id == extractId(segments)
           at == Find(id)
       IN  IF id = << >> \/ ~IsObjectId(id)
           THEN /\ resp' = jsonResponse(<< >>, 400)
                /\ UNCHANGED store
           ELSE IF method = "GET"
           THEN /\ resp' = IF at = 0 THEN jsonResponse(<< >>, 404)
                           ELSE jsonResponse(<<serializeBook(store[at])>>, 200)
                /\ UNCHANGED store
           ELSE IF method \in {"PUT", "PATCH"}
           THEN IF ~payload.json
                THEN /\ resp' = jsonResponse(<< >>, 400)
                     /\ UNCHANGED store
                ELSE \* $set: every field of updatePayload, null when absent
                     IF at = 0
                     THEN /\ resp' = jsonResponse(<< >>, 404)
                          /\ UNCHANGED store
                     ELSE LET doc == [store[at] EXCEPT
                                         !.title = OrElse(payload.title, Null),
                                         !.author = OrElse(payload.authors, Null)]
                          IN  /\ store' = [store EXCEPT ![at] = doc]
                              /\ resp' = jsonResponse(<<serializeBook(doc)>>, 200)
           ELSE IF method = "DELETE"
           THEN IF at = 0
                THEN /\ resp' = jsonResponse(<< >>, 404)
                     /\ UNCHANGED store
                ELSE /\ store' = RemoveAt(store, at)
                     /\ resp' = jsonResponse(<< >>, 200)
           ELSE /\ resp' = jsonResponse(<< >>, 405)
                /\ UNCHANGED store
    /\ UNCHANGED <<component, obsVars, pageVars, nativeVars, shownVars, quaggaVars, normVars,
                   nextId, now, loading, fetched, booksByDate, listError>>

\* Time passes on the server.
ClockTick ==
    /\ component \in {"api", "list"}
    /\ now < MaxClock
    /\ now' = now + 1
    /\ UNCHANGED <<component, obsVars, pageVars, nativeVars, shownVars, quaggaVars, normVars,
                   store, nextId, resp, loading, fetched, booksByDate, listError>>

\* ------------------------------------------------------------- the List page

\* book[name], undefined when the object has no such property.
Field(book, name) == IF name \in DOMAIN book THEN book[name] ELSE Undefined

\* book.date_recorded || book.created_at.split('T')[0]
DateOf(book) ==
    LET date_recorded == Field(book, "date_recorded")
    IN  IF date_recorded # Undefined /\ date_recorded # << >>
        THEN date_recorded
        ELSE SplitT(book.created_at)

\* const grouped = {}
NoGroups == [date \in {} |-> << >>]

\* books.forEach: each book is pushed onto the group of its date.
RECURSIVE GroupInto(_, _)
GroupInto(grouped, books) ==
    IF books = << >> THEN grouped
    ELSE LET date == DateOf(Head(books))
         IN  GroupInto(IF date \in DOMAIN grouped
                       THEN [grouped EXCEPT ![date] = Append(@, Head(books))]
                       ELSE grouped @@ (date :> <<Head(books)>>),
                       Tail(books))

\* A seeded slip: the dates are sorted in ascending order.
RECURSIVE SortDatesAscending(_)
SortDatesAscending(dates) ==
    IF dates = {} THEN << >>
    ELSE LET first == CHOOSE a \in dates : \A b \in dates : localeCompare(a, b) <= 0
         IN  <<first>> \o SortDatesAscending(dates \ {first})

\* dates.sort((a, b) => b.localeCompare(a))
RECURSIVE SortDates(_)
SortDates(dates) ==
    IF dates = {} THEN << >>
    ELSE LET first == CHOOSE a \in dates : \A b \in dates : localeCompare(b, a) <= 0
         IN  <<first>> \o SortDates(dates \ {first})

\* Object.keys(booksByDate).sort(...)
sortedDates == SortDates(DOMAIN booksByDate)

\* The sum of books.length over the groups of the given dates.
RECURSIVE SumLengths(_)
SumLengths(dates) ==
    IF dates = {} THEN 0
    ELSE LET date == CHOOSE d \in dates : TRUE
         IN  Len(booksByDate[date]) + SumLengths(dates \ {date})

\* Object.values(booksByDate).reduce((sum, books) => sum + books.length, 0)
totalBooks == SumLengths(DOMAIN booksByDate)

\* The effect of List: fetch("/api/books"), then the grouping; a response
\* that is not ok empties the list and raises a toast.
ListLoad(ok) ==
    /\ component = "list"
    /\ loading
    /\ loading' = FALSE
    /\ IF ok
       THEN /\ fetched' = MapSerialize(SortDocs(store))
            /\ booksByDate' = GroupInto(NoGroups, fetched')
            /\ UNCHANGED listError
       ELSE /\ fetched' = << >>
            /\ booksByDate' = NoGroups
            /\ listError' = TRUE
    /\ UNCHANGED <<component, obsVars, pageVars, nativeVars, shownVars, quaggaVars, normVars,
                   store, nextId, now, resp>>

\* The List page is opened anew.
ListOpen ==
    /\ component = "list"
    /\ ~loading
    /\ loading' = TRUE
    /\ fetched' = << >>
    /\ booksByDate' = NoGroups
    /\ listError' = FALSE
    /\ UNCHANGED <<component, obsVars, pageVars, nativeVars, shownVars, quaggaVars, normVars,
                   store, nextId, now, resp>>

\* ------------------------------------------------ the normalizer on its own

Prefixes == {<<"9","7","8">>, <<"9","7","9">>, <<"9","7","7">>, <<"0","3","0">>}

\* Of 5, 6 and 9 characters, with and without an x inside.
Middles ==
    {<<"6","4","0","6","1">>,
     <<"6","4","0","6","1","5">>,
     <<"6","4","x","6","1","5">>,
     <<"0","1","4","3","1","2","7","7","4">>,
     <<"0","1","4","x","1","2","7","7","4">>}

Lasts == {<<"0">>, <<"1">>, <<"X">>, <<"x">>, <<"1","2">>}

\* The texts whose characters all survive the stripping, of 9 to 14 characters.
Candidates == {p \o m \o l : p \in Prefixes, m \in Middles, l \in Lasts}

Separators == {"-", " "}

\* s with the character c put after its first i characters.
InsertAt(s, i, c) == SubSeq(s, 1, i) \o <<c>> \o SubSeq(s, i + 1, Len(s))

\* A hyphen or a space is put somewhere into the text.
InsertSeparator(i, c) ==
    /\ component = "none"
    /\ ~done
    /\ Len(input) - Len(canon) < MaxSeps
    /\ i \in 0..Len(input)
    /\ input' = InsertAt(input, i, c)
    /\ UNCHANGED <<component, apiVars, obsVars, pageVars, nativeVars, shownVars, quaggaVars, canon, done, result>>

\* normalizeToISBN(input) is called.
Normalize ==
    /\ component = "none"
    /\ ~done
    /\ done' = TRUE
    /\ result' = normalizeToISBN(input)
    /\ UNCHANGED <<component, apiVars, obsVars, pageVars, nativeVars, shownVars, quaggaVars, canon, input>>

\* ---------------------------------------------------------- the Capture page

\* The identifiers a scanner hands to the page.
Isbns == {normalizeToISBN(T13), normalizeToISBN(T10)}

\* What fetchBookByIsbn comes back with: a book, a book without a title,
\* nothing, or an exception.
Outcomes == {"found", "untitled", "none", "error"}

\* The texts of the title field.
FieldTexts == {<< >>, <<"a">>}

\* The book details: the identifier and the title (the authors go with it).
BookOf(isbn, title) == <<isbn, title>>

\* What the page does not touch.
Rest == <<component, apiVars, obsVars, nativeVars, shownVars, quaggaVars, normVars>>

\* The "Record a new book" button, rendered while the scanner is not.
RecordNew ==
    /\ component = "capture"
    /\ ~scanning
    /\ bookData' = Null
    /\ pendingIsbn' = Null
    /\ scanning' = TRUE
    /\ UNCHANGED <<Rest, isLookingUp, lookupIsbn, isSaving, toast>>

\* handleISBNDetected(isbn), called by the rendered scanner.
handleISBNDetected(isbn) ==
    /\ component = "capture"
    /\ scanning
    /\ scanning' = FALSE
    /\ bookData' = Null
    /\ pendingIsbn' = isbn
    /\ UNCHANGED <<Rest, isLookingUp, lookupIsbn, isSaving, toast>>

\* onCancel of the rendered scanner
onCancel ==
    /\ component = "capture"
    /\ scanning
    /\ scanning' = FALSE
    /\ UNCHANGED <<Rest, bookData, pendingIsbn, isLookingUp, lookupIsbn, isSaving, toast>>

\* The Confirm ISBN card is rendered.
ConfirmShown == pendingIsbn # Null /\ ~isLookingUp /\ bookData = Null

\* "Lookup this ISBN": confirmLookup() up to its await.
confirmLookup ==
    /\ component = "capture"
    /\ ConfirmShown
    /\ isLookingUp' = TRUE
    /\ lookupIsbn' = pendingIsbn
    /\ UNCHANGED <<Rest, scanning, bookData, pendingIsbn, isSaving, toast>>

\* setBookData({...data, isbn: pendingIsbn}) of confirmLookup
LookupFound(title) == BookOf(lookupIsbn, title)

\* fetchBookByIsbn settles and confirmLookup() runs to its end.
LookupDone(outcome) ==
    /\ component = "capture"
    /\ lookupIsbn # Null
    /\ lookupIsbn' = Null
    /\ isLookingUp' = FALSE
    /\ bookData' = IF outcome = "found" THEN LookupFound(<<"a">>)
                   ELSE IF outcome = "untitled" THEN LookupFound(<< >>)
                   ELSE bookData
    /\ toast' = IF outcome \in {"found", "untitled"} THEN "Book found!"
                ELSE IF outcome = "none" THEN "No book found"
                ELSE "Lookup failed"
    /\ UNCHANGED <<Rest, scanning, pendingIsbn, isSaving>>

\* The "Rescan" button of the Confirm ISBN card.
Rescan ==
    /\ component = "capture"
    /\ ConfirmShown
    /\ pendingIsbn' = Null
    /\ bookData' = Null
    /\ scanning' = TRUE
    /\ UNCHANGED <<Rest, isLookingUp, lookupIsbn, isSaving, toast>>

\* The Confirm & Save card is rendered.
SaveShown == bookData # Null /\ ~isLookingUp

\* updateField("title", value)
updateField(value) ==
    /\ component = "capture"
    /\ SaveShown
    /\ bookData' = BookOf(bookData[1], value)
    /\ UNCHANGED <<Rest, scanning, pendingIsbn, isLookingUp, lookupIsbn, isSaving, toast>>

\* The save button: saveBook() up to its await; without a title it only
\* raises "Missing details".
saveBook ==
    /\ component = "capture"
    /\ SaveShown /\ ~isSaving
    /\ IF bookData[2] = << >>
       THEN toast' = "Missing details" /\ UNCHANGED isSaving
       ELSE isSaving' = TRUE /\ UNCHANGED toast
    /\ UNCHANGED <<Rest, scanning, bookData, pendingIsbn, isLookingUp, lookupIsbn>>

\* The POST of saveBook settles: the details are cleared when it was accepted.
SaveDone(ok) ==
    /\ component = "capture"
    /\ isSaving
    /\ isSaving' = FALSE
    /\ bookData' = IF ok THEN Null ELSE bookData
    /\ toast' = IF ok THEN "Book recorded!" ELSE "Save failed"
    /\ UNCHANGED <<Rest, scanning, pendingIsbn, isLookingUp, lookupIsbn>>

\* ------------------------------------------------------------ specifications

\* The collection is empty and the List page is loading.
InitStore ==
    /\ store = << >>
    /\ nextId = 1
    /\ now = 0
    /\ resp = jsonResponse(<< >>, 0)
    /\ loading = TRUE
    /\ fetched = << >>
    /\ booksByDate = NoGroups
    /\ listError = FALSE

\* useState(null), useState(false) of Capture
InitPage ==
    /\ scanning = FALSE
    /\ bookData = Null
    /\ pendingIsbn = Null
    /\ isLookingUp = FALSE
    /\ lookupIsbn = Null
    /\ isSaving = FALSE
    /\ toast = "none"

\* Neither component has started anything; nothing is stored.
InitRefs ==
    /\ isMounted = [a \in Acts |-> FALSE]
    /\ cancelledAt = [a \in Acts |-> "no"]
    /\ streamRef = 0
    /\ stream = [a \in Acts |-> "none"]
    /\ detectorIntervalRef = 0
    /\ timer = [a \in Acts |-> "none"]
    /\ pendingDetect = [a \in Acts |-> 0]
    /\ codeReaderRef = FALSE
    /\ zxRunning = FALSE
    /\ zxOwner = 0
    /\ zxStarts = [a \in Acts |-> 0]
    /\ toasts = [a \in Acts |-> 0]
    /\ emitted = << >>
    /\ isReady = FALSE
    /\ isScanning = FALSE
    /\ detectionLockRef = FALSE
    /\ quagga = "stopped"
    /\ initPending = {}
    /\ handlers = 0
    /\ cycle = 0
    /\ stills = 0
    /\ videoElRef = FALSE
    /\ InitStore
    /\ lastResults = << >>
    /\ InitPage

\* The BarcodeDetector/ZXing component after its first render and effect run:
\* with isActive true start() awaits getUserMedia, else stopScan() has run.
InitNative ==
    /\ component = "native"
    /\ mounted = TRUE
    /\ hasBarcodeDetector \in BOOLEAN
    /\ isActive \in BOOLEAN
    /\ cur = IF isActive THEN 1 ELSE 0
    /\ pc = [a \in Acts |-> IF isActive /\ a = 1 THEN "gum" ELSE "none"]
    /\ status = IF isActive THEN "Starting camera..." ELSE "Idle"
    /\ InitRefs
    /\ isMounted = [a \in Acts |-> isActive /\ a = 1]

\* The Quagga component after its first render.
InitQuagga ==
    /\ component = "quagga"
    /\ mounted = TRUE
    /\ hasBarcodeDetector = FALSE
    /\ isActive = FALSE
    /\ cur = 0
    /\ pc = [a \in Acts |-> "none"]
    /\ status = "Idle"
    /\ InitRefs

Init ==
    /\ InitNative \/ InitQuagga
    /\ watch = FALSE
    /\ canon = << >> /\ input = << >> /\ done = FALSE /\ result = Null

NativeNext ==
    \/ \E a \in Acts : GumResolve(a) \/ GumReject(a) \/ PlayDone(a)
    \/ \E a \in Acts : Tick(a) \/ DetectReject(a)
    \/ \E a \in Acts, results \in ResultLists : DetectResolve(a, results)
    \/ \E decoded \in RawTexts : ZXResult(decoded)
    \/ \E notFound \in BOOLEAN : ZXError(notFound)
    \/ Activate \/ Deactivate \/ Unmount

QuaggaNext ==
    \/ StartCamera \/ StartScanning \/ StopScan \/ DecodeStill \/ QuaggaUnmount
    \/ \E c \in 1..MaxCycles, err \in BOOLEAN : InitDone(c, err)
    \/ \E code \in RawTexts : Detected(code) \/ StillDone(code)

Next == NativeNext \/ QuaggaNext

Spec == Init /\ [][Next]_vars

\* The ZXing reader keeps decoding frames while it runs: when a text that is
\* an identifier stays in front of the camera, its callback gets it.
ZXDecodesIdentifier == \E decoded \in {T13, T10} : ZXResult(decoded)

SpecLive == Init /\ [][Next]_vars /\ WF_vars(ZXDecodesIdentifier)

\* The BarcodeDetector/ZXing component with the lists of its ticks kept.
InitTick ==
    /\ InitNative
    /\ watch = TRUE
    /\ canon = << >> /\ input = << >> /\ done = FALSE /\ result = Null

SpecTick == InitTick /\ [][NativeNext]_vars

\* One instance of the BarcodeDetector/ZXing component that is activated,
\* deactivated and activated once again.
InitReuse ==
    /\ InitNative
    /\ watch = FALSE
    /\ canon = << >> /\ input = << >> /\ done = FALSE /\ result = Null

NextReuse == NativeNext \/ ActivateAgain

SpecReuse == InitReuse /\ [][NextReuse]_vars

\* The normalizer applied to one candidate text with separators inserted.
InitNorm ==
    /\ component = "none"
    /\ watch = FALSE
    /\ mounted = FALSE
    /\ hasBarcodeDetector = FALSE
    /\ isActive = FALSE
    /\ cur = 0
    /\ pc = [a \in Acts |-> "none"]
    /\ status = "Idle"
    /\ InitRefs
    /\ canon \in Candidates
    /\ input = canon
    /\ done = FALSE
    /\ result = Null

NextNorm ==
    \/ \E i \in 0..Len(input), c \in Separators : InsertSeparator(i, c)
    \/ Normalize

SpecNorm == InitNorm /\ [][NextNorm]_vars

\* The API over an empty collection, and the List page.
InitApi ==
    /\ component = "api"
    /\ watch = FALSE
    /\ mounted = FALSE
    /\ hasBarcodeDetector = FALSE
    /\ isActive = FALSE
    /\ cur = 0
    /\ pc = [a \in Acts |-> "none"]
    /\ status = "Idle"
    /\ InitRefs
    /\ canon = << >> /\ input = << >> /\ done = FALSE /\ result = Null

NextApi ==
    \/ \E method \in Methods, payload \in Payloads : Books(method, payload)
    \/ \E method \in Methods, segments \in Paths, payload \in UpdatePayloads :
          BookById(method, segments, payload)
    \/ ClockTick

SpecApi == InitApi /\ [][NextApi]_vars

\* The requests to /api/books, and the reads of /api/books/:id.
NextBooks ==
    \/ \E method \in Methods, payload \in Payloads : Books(method, payload)
    \/ \E segments \in Paths, payload \in UpdatePayloads :
          BookById("GET", segments, payload)
    \/ ClockTick

SpecBooks == InitApi /\ [][NextBooks]_vars

\* The Capture page with ISBN confirmation.
InitCapture ==
    /\ component = "capture"
    /\ watch = FALSE
    /\ mounted = FALSE
    /\ hasBarcodeDetector = FALSE
    /\ isActive = FALSE
    /\ cur = 0
    /\ pc = [a \in Acts |-> "none"]
    /\ status = "Idle"
    /\ InitRefs
    /\ canon = << >> /\ input = << >> /\ done = FALSE /\ result = Null

NextCapture ==
    \/ RecordNew \/ Rescan \/ onCancel
    \/ \E isbn \in Isbns : handleISBNDetected(isbn)
    \/ confirmLookup
    \/ \E outcome \in Outcomes : LookupDone(outcome)
    \/ \E value \in FieldTexts : updateField(value)
    \/ saveBook
    \/ \E ok \in BOOLEAN : SaveDone(ok)

SpecCapture == InitCapture /\ [][NextCapture]_vars

\* The List page over a collection that records are added to.
InitList ==
    /\ component = "list"
    /\ watch = FALSE
    /\ mounted = FALSE
    /\ hasBarcodeDetector = FALSE
    /\ isActive = FALSE
    /\ cur = 0
    /\ pc = [a \in Acts |-> "none"]
    /\ status = "Idle"
    /\ InitRefs
    /\ canon = << >> /\ input = << >> /\ done = FALSE /\ result = Null

NextList ==
    \/ \E payload \in Payloads : Books("POST", payload)
    \/ ClockTick
    \/ \E ok \in BOOLEAN : ListLoad(ok)
    \/ ListOpen

SpecList == InitList /\ [][NextList]_vars

\* -------------------------------------------------------------------- claims

\* The onISBNDetected calls activation a has made.
EmissionsOf(a) == {i \in DOMAIN emitted : emitted[i].act = a}

\* start() of activation a has returned and none of its detect() calls is pending.
Settled(a) == pc[a] \in {"done", "failed_gum", "failed_ctor"} /\ pendingDetect[a] = 0

\* The cleanup of activation a has run.
Cancelled(a) == a <= cur /\ ~isMounted[a]

\* The timer of some activation would call detector.detect() when it fires.
NativeActive == \E a \in Acts : timer[a] = "live" /\ isMounted[a] /\ mounted

\* C1: in the BarcodeDetector/ZXing scanner, onISBNDetected is called at most
\* once within one activation, under every interleaving of timer ticks,
\* detect() resolutions and ZXing callbacks, overlapping ticks included.
C1_AtMostOncePerActivation ==
    component = "native" => \A a \in Acts : Cardinality(EmissionsOf(a)) <= 1

\* C2: once the cleanup of an activation has run, onISBNDetected is never
\* called for that activation, even by a detect() or a ZXing decode that was
\* in flight: no step adds a call of an activation whose isMounted is false.
C2_NoEmissionAfterCancel ==
    [][component = "native" =>
          \A a \in Acts : ~isMounted[a] => EmissionsOf(a)' = EmissionsOf(a)]_vars

\* C3: an activation cancelled while getUserMedia was pending schedules no
\* detection timer, starts no decode strategy and calls onISBNDetected never,
\* once the request has resolved.
C3_NoStartAfterCancelledPending ==
    component = "native" =>
        \A a \in Acts :
            (cancelledAt[a] = "gum" /\ pc[a] # "gum") =>
                /\ timer[a] = "none"
                /\ zxStarts[a] = 0
                /\ EmissionsOf(a) = {}

\* C4: once the cleanup of an activation has run and its asynchronous steps
\* have resolved, no camera stream the activation acquired has a live track.
C4_NoLiveStreamAfterCancel ==
    component = "native" =>
        \A a \in Acts : (Cancelled(a) /\ Settled(a)) => stream[a] # "live"

\* C5: when the camera is acquired and constructing the BarcodeDetector
\* throws, ZXing is started within the same activation and no error is shown
\* (no "Camera error" toast).
C5_CtorThrowFallsBack ==
    component = "native" =>
        \A a \in Acts : pc[a] = "failed_ctor" => (zxStarts[a] >= 1 /\ toasts[a] = 0)

\* C6: at most one decode strategy is active: while ZXing decodes the native
\* timer calls detector.detect() no more, and decodeFromVideoDevice is started
\* at most once per activation.
C6_OneStrategyActive ==
    component = "native" =>
        /\ ~(zxRunning /\ NativeActive)
        /\ \A a \in Acts : zxStarts[a] <= 1

\* A canonical identifier: 13 digits beginning 978 or 979, or nine digits and
\* a tenth character that is a digit or an upper-case X.
IsCanonical(s) ==
    \/ /\ Len(s) = 13
       /\ \A i \in 1..13 : s[i] \in Digits
       /\ SubSeq(s, 1, 3) \in {<<"9","7","8">>, <<"9","7","9">>}
    \/ /\ Len(s) = 10
       /\ \A i \in 1..9 : s[i] \in Digits
       /\ s[10] \in Digits \cup {"X"}

\* C7: every value passed to onISBNDetected, by the native tick, the ZXing
\* callback, the Quagga live handler or Decode Still, is a canonical identifier.
C7_EmittedCanonical == \A i \in DOMAIN emitted : IsCanonical(emitted[i].isbn)

\* An identifier decoded with a lower-case x and one decoded with hyphens have
\* both been passed on.
C7_Witness ==
    \E i, j \in DOMAIN emitted :
        /\ Len(emitted[i].isbn) = 10 /\ emitted[i].isbn[10] = "X"
        /\ Len(emitted[j].isbn) = 13

\* Thirteen decimal digits beginning 978 or 979.
IsBook13(s) ==
    /\ Len(s) = 13
    /\ \A i \in 1..13 : s[i] \in Digits
    /\ SubSeq(s, 1, 3) \in {<<"9","7","8">>, <<"9","7","9">>}

\* Nine digits and a tenth character that is a digit, X or x.
IsBook10(s) ==
    /\ Len(s) = 10
    /\ \A i \in 1..9 : s[i] \in Digits
    /\ s[10] \in Digits \cup {"X", "x"}

\* C8: normalizeToISBN returns a text of 13 digits beginning 978 or 979
\* unchanged, whatever its check digit.
C8_Book13Unchanged == (done /\ IsBook13(input)) => result = input

\* 978-0-14-312774 with check digit 0, which is not its ISBN-13 check digit.
C8_Witness ==
    /\ done
    /\ input = <<"9","7","8","0","1","4","3","1","2","7","7","4","0">>
    /\ result = input

\* s with a trailing x made X.
UpperLast(s) == [s EXCEPT ![10] = IF @ = "x" THEN "X" ELSE @]

\* C9: normalizeToISBN returns a text of nine digits and a digit, X or x with
\* a trailing x replaced by X and every other character unchanged.
C9_Book10TrailingX == (done /\ IsBook10(input)) => result = UpperLast(input)

C9_Witness ==
    /\ done
    /\ IsBook10(input)
    /\ input[10] = "x"
    /\ result[10] = "X"
    /\ SubSeq(result, 1, 9) = SubSeq(input, 1, 9)

\* C10: for a valid identifier c and a text t made from c by inserting hyphens
\* and spaces anywhere, normalizeToISBN(t) = normalizeToISBN(c).
C10_SeparatorsIgnored ==
    (done /\ (IsBook13(canon) \/ IsBook10(canon))) => result = normalizeToISBN(canon)

C10_Witness ==
    /\ done
    /\ IsBook13(canon)
    /\ Len(input) = Len(canon) + 2
    /\ input[1] \in Separators
    /\ input[Len(input)] \in Separators
    /\ result = canon

\* C11: normalizeToISBN returns null for every text whose stripped form is
\* neither of the two accepted shapes.  canon holds only digits, X and x and
\* input is canon with hyphens and spaces put in, so canon is the stripped
\* form of input.
C11_NullForOtherShapes ==
    (done /\ ~IsBook13(canon) /\ ~IsBook10(canon)) => result = Null

\* The three cases the claim names: 13 digits that begin 977, a stripped form
\* of 9, 11, 12 or 14 characters, and an x that is not the tenth of ten.
WrongPrefix(s) == Len(s) = 13 /\ (\A i \in 1..13 : s[i] \in Digits) /\ s[3] = "7"

WrongLength(s) == Len(s) \notin {10, 13}

StrayX(s) == \E i \in 1..Len(s) : s[i] \in {"X", "x"} /\ ~(Len(s) = 10 /\ i = 10)

\* 13 digits beginning 977, with a hyphen put in, were turned down.
C11_Witness ==
    /\ done
    /\ WrongPrefix(canon)
    /\ input # canon
    /\ result = Null

\* C12: normalizeToISBN is idempotent on what it accepts: when it returns an
\* identifier c for a text, normalizeToISBN(c) = c.  The function reads its
\* argument and nothing else, so the same text always gives the same result.
C12_Idempotent ==
    (done /\ result # Null) => normalizeToISBN(result) = result

\* An identifier came out of a text that differs from it, and is a fixed point.
C12_Witness ==
    /\ done
    /\ result # Null
    /\ result # input
    /\ normalizeToISBN(result) = result

\* Nothing is held: no timer fires, the reader does not decode, no track of
\* any stream is live and both handles are null.
Released ==
    /\ detectorIntervalRef = 0
    /\ \A a \in Acts : timer[a] # "live"
    /\ ~zxRunning
    /\ streamRef = 0
    /\ \A a \in Acts : stream[a] # "live"

\* C13: a successful detection leaves the resources released: when the native
\* tick or the ZXing callback that called onISBNDetected returns, the
\* detection timer is cleared, the ZXing reader is reset, every track of the
\* camera stream is stopped and the stream handle is null.
C13_DetectionReleases ==
    [][(component = "native" /\ Len(emitted') > Len(emitted)) => Released']_vars

\* C14: when getUserMedia rejects, the failure is shown once for that
\* activation, start() does not ask for the camera again, and the activation
\* holds no detection timer, no decode strategy and no camera stream.  (The
\* status line then reads "Camera error" until the next stopScan().)
C14_CameraFailure ==
    /\ [](component = "native" =>
            \A a \in Acts :
                pc[a] = "failed_gum" =>
                    /\ toasts[a] = 1
                    /\ timer[a] = "none"
                    /\ zxStarts[a] = 0
                    /\ stream[a] = "none")
    /\ [][\A a \in Acts : pc[a] = "failed_gum" => pc'[a] = "failed_gum"]_vars

\* getUserMedia of the running activation was rejected and the user was told.
C14_Witness ==
    /\ component = "native"
    /\ isActive /\ mounted
    /\ pc[cur] = "failed_gum"
    /\ toasts[cur] = 1
    /\ status = "Camera error"

\* C15: cancel while the session is Scanning (start() has returned and a
\* strategy is active) leaves it Stopped: the timer is cleared and its handle
\* null, the reader is reset, every track is stopped and the stream handle
\* null, the status is Idle, and the cancel calls onISBNDetected never.  The
\* cancel is the step that sets isMounted of the running activation to false;
\* the status of an unmounted component is not shown.
C15_CancelWhileScanning ==
    [][(/\ component = "native"
        /\ isActive /\ pc[cur] = "done"
        /\ timer[cur] = "live" \/ zxRunning
        /\ isMounted[cur] /\ ~isMounted'[cur])
       => /\ detectorIntervalRef' = 0
          /\ timer'[cur] # "live"
          /\ ~zxRunning'
          /\ streamRef' = 0
          /\ stream'[cur] # "live"
          /\ mounted' => status' = "Idle"
          /\ emitted' = emitted]_vars

\* C16: stopping is idempotent and safe in every state: stopScan (the
\* BarcodeDetector/ZXing scanner) and stopScanning (the Quagga scanner) called
\* twice in a row leave the state that one call leaves, in whatever state the
\* first call is made.
C16_StopIdempotent ==
    /\ component = "native" => stopScan(stopScan(ScanState)) = stopScan(ScanState)
    /\ component = "quagga" =>
           stopScanning(stopScanning(QuaggaState)) = stopScanning(QuaggaState)

\* A state with a timer, a decoding reader and a stream to release.
C16_Witness ==
    /\ component = "native"
    /\ detectorIntervalRef # 0 /\ timer[detectorIntervalRef] = "live"
    /\ zxRunning
    /\ streamRef # 0 /\ stream[streamRef] = "live"
    /\ stopScan(ScanState) # ScanState
    /\ stopScan(stopScan(ScanState)) = stopScan(ScanState)

\* C17: across the requests to /api/books and /api/books/:id, with any
\* method, the stored records only grow: a request that changes the store is
\* a record creation (answered 201, one record more), and every record that
\* was stored is still stored, field by field.
C17_StoreOnlyGrows ==
    [][component = "api" =>
          \/ store' = store
          \/ /\ resp'.status = 201
             /\ Len(store') = Len(store) + 1
             /\ SubSeq(store', 1, Len(store)) = store]_vars

\* The recording date of a returned book: its date_recorded, or the date part
\* of created_at (the two characters before the T) when it has none.
RecordingDate(book) ==
    IF "date_recorded" \in DOMAIN book THEN book.date_recorded
    ELSE SubSeq(book.created_at, 1, 2)

\* The day of the month a date names.
DayNumber(date) ==
    LET value(c) == CHOOSE n \in 0..9 : CharOrder[n + 1] = c
    IN  10 * value(date[1]) + value(date[2])

\* Where a book is shown: the date of the group and the place in it.
Places(book) ==
    {<<date, k>> \in (DOMAIN booksByDate) \X (1..Len(fetched)) :
        k <= Len(booksByDate[date]) /\ booksByDate[date][k] = book}

LeftScanning(a) == EmissionsOf(a) # {} \/ Cancelled(a)

\* A step in which a detector.detect() call of activation a settles.
DetectSettles(a) == pendingDetect'[a] < pendingDetect[a]

\* A step of the ZXing callback that activation a handed to the reader.
ZXCallsBack(a) ==
    /\ zxRunning /\ zxOwner = a
    /\ UNCHANGED <<pendingDetect, pc, isActive, mounted, cur>>

\* C19: once an activation has left Scanning, a decode result or decode error
\* of it that arrives later is dropped: nothing is emitted, the status stays,
\* and no strategy, timer or stream is started or stopped (a rejection of
\* detector.detect() or a throwing onISBNDetected does not start ZXing).
C19_LateResultsDiscarded ==
    [][component = "native" =>
          \A a \in Acts :
              (LeftScanning(a) /\ (DetectSettles(a) \/ ZXCallsBack(a))) =>
                  UNCHANGED <<emitted, status, zxStarts, zxRunning, codeReaderRef,
                              stream, streamRef, timer, detectorIntervalRef>>]_vars

\* A step in which start() of activation a picks its strategy.
Selects(a) == pc[a] # "done" /\ pc'[a] = "done"

\* A step in which activation a calls decodeFromVideoDevice.
StartsZXing(a) == zxStarts'[a] > zxStarts[a]

\* A step in which a detector.detect() call of activation a rejects.
DetectRaises(a) == DetectSettles(a) /\ StartsZXing(a) /\ emitted' = emitted

\* C20: start() uses the native strategy whenever the probe finds
\* BarcodeDetector; ZXing is started only when the probe fails or the native
\* strategy raises; when detector.detect() raises in a tick of a running
\* activation the reader decodes from then on, and with an identifier in
\* front of the camera onISBNDetected is eventually called unless the
\* activation is cancelled.
C20_StrategySelection ==
    /\ [][component = "native" =>
            \A a \in Acts :
                /\ (Selects(a) /\ hasBarcodeDetector) =>
                       (timer'[a] = "live" /\ ~StartsZXing(a))
                /\ StartsZXing(a) =>
                       (Selects(a) /\ ~hasBarcodeDetector) \/ DetectRaises(a)
                /\ (DetectRaises(a) /\ isMounted[a]) => (zxRunning' /\ zxOwner' = a)]_vars
    /\ \A a \in Acts :
          (component = "native" /\ zxRunning /\ zxOwner = a /\ isMounted[a])
              ~> (EmissionsOf(a) # {} \/ ~isMounted[a])

\* The lists of two detections that normalize to two different identifiers.
TwoIdentifiers ==
    {r \in ResultLists :
        /\ Len(r) = 2
        /\ normalizeToISBN(r[1]) # Null /\ normalizeToISBN(r[2]) # Null
        /\ normalizeToISBN(r[1]) # normalizeToISBN(r[2])}

\* C21: a tick whose detect() returns two detections that normalize to two
\* different identifiers makes exactly one onISBNDetected call, and the call
\* carries the identifier of the first detection of the list.
C21_FirstOfTwo ==
    [][\A a \in Acts, results \in TwoIdentifiers :
          DetectResolve(a, results) =>
              emitted' = Append(emitted, Emission(a, normalizeToISBN(results[1])))]_vars

\* A tick was given two different identifiers and passed the first one on.
C21_Witness ==
    /\ lastResults \in TwoIdentifiers
    /\ Len(emitted) = 1
    /\ emitted[1].isbn = normalizeToISBN(lastResults[1])
    /\ emitted[1].isbn # normalizeToISBN(lastResults[2])

\* Activation a is scanning and has passed no identifier on yet.
ScanningFresh(a) == isMounted[a] /\ pc[a] = "done" /\ EmissionsOf(a) = {}

\* C22: every detection of a tick goes through the normalizer: when some
\* detection of the list normalizes to an identifier and the activation has
\* accepted nothing yet, the tick emits an identifier, also when an earlier
\* detection of the same list did not normalize.
C22_EveryDetectionNormalized ==
    [][\A a \in Acts, results \in ResultLists :
          (/\ DetectResolve(a, results)
           /\ ScanningFresh(a)
           /\ \E i \in DOMAIN results : normalizeToISBN(results[i]) # Null)
              => Len(emitted') = Len(emitted) + 1]_vars

\* The lists in which no detection normalizes to an identifier.
NoIdentifier ==
    {r \in ResultLists : \A i \in DOMAIN r : normalizeToISBN(r[i]) = Null}

\* C23: a tick of a scanning activation whose detections do not normalize
\* changes nothing: the status is the scanning status, the timer handle, the
\* camera stream and the strategy in use are as before and nothing is
\* emitted; a tick of the activation that brings an identifier emits it.
C23_MissChangesNothing ==
    [][\A a \in Acts, results \in ResultLists :
          (DetectResolve(a, results) /\ ScanningFresh(a)) =>
              IF results \in NoIdentifier
              THEN /\ status' = "Scanning..."
                   /\ UNCHANGED <<timer, detectorIntervalRef, stream, streamRef,
                                  zxRunning, zxOwner, zxStarts, codeReaderRef, emitted>>
              ELSE normalizeToISBN(results[1]) # Null =>
                       emitted' = Append(emitted, Emission(a, normalizeToISBN(results[1])))]_vars

\* A tick brought a detection that is no identifier and the scan goes on.
C23_Witness ==
    /\ lastResults \in NoIdentifier /\ Len(lastResults) > 0
    /\ \E a \in Acts : ScanningFresh(a) /\ timer[a] = "live" /\ stream[a] = "live"
    /\ status = "Scanning..."
    /\ emitted = << >>

\* C24: a decode failure of one frame is not surfaced: after a frame without
\* a barcode or with any other decode error of the reader, the status is the
\* scanning status and not an error status, and the reader, the stream and
\* the timer are held as before.
C24_FrameErrorsSwallowed ==
    [][\A notFound \in BOOLEAN :
          ZXError(notFound) =>
              /\ status' = "Scanning..."
              /\ UNCHANGED <<zxRunning, zxOwner, stream, streamRef, timer,
                             detectorIntervalRef, toasts>>]_vars

\* The activations whose detection timer, or camera stream, is live.
LiveTimers == {a \in Acts : timer[a] = "live"}
LiveStreams == {a \in Acts : stream[a] = "live"}

\* C25: across the activations and cancellations of one instance at most one
\* detection timer and at most one acquired camera stream are live, and each
\* live timer or stream is the one detectorIntervalRef or streamRef holds, so
\* that stopScan releases it.
C25_OneTimerOneStream ==
    component = "native" =>
        /\ Cardinality(LiveTimers) <= 1
        /\ Cardinality(LiveStreams) <= 1
        /\ \A a \in LiveTimers : detectorIntervalRef = a
        /\ \A a \in LiveStreams : streamRef = a

\* C26: in the Quagga scanner one startScanning cycle passes at most one
\* identifier on: after an acceptance no further onISBNDetected call is made
\* before the next startScanning, be it from the onDetected handler of the
\* cycle, from a handler an earlier cycle left registered, or from a
\* decodeSingle callback requested before the acceptance.
C26_OnePerCycle ==
    component = "quagga" =>
        \A c \in 1..MaxCycles : Cardinality(EmissionsOf(c)) <= 1

\* A step in which the callback of Quagga.init of cycle c runs without error.
InitSucceeds(c) == c \in initPending /\ c \notin initPending' /\ status' # "Scanner error"

\* C27: when stopScanning has run while Quagga.init was pending, the callback
\* of init does not call Quagga.start(): the decoder stays stopped, and no
\* identifier is passed on before the user starts a new scan.
C27_NoStartAfterStop ==
    /\ [][component = "quagga" =>
            \A c \in 1..MaxCycles :
                (InitSucceeds(c) /\ ~isScanning) => quagga' # "running"]_vars
    /\ [][(component = "quagga" /\ ~isScanning /\ ~isScanning') =>
              emitted' = emitted]_vars

\* A field of a request body that is missing or holds nothing but spaces.
Blank(v) == v = Undefined \/ \A i \in DOMAIN v : v[i] = " "

\* A text with a character in it and no space at either end.
Trimmed(s) == s # << >> /\ s[1] # " " /\ s[Len(s)] # " "

\* C28: a POST to /api/books whose body is not JSON, or whose title or
\* authors is missing or blank, is answered 400 and leaves the store as it
\* was; the record any other POST stores has a title and an author that are
\* not empty and carry no space at either end.
C28_PostValidates ==
    [][component = "api" =>
          \A payload \in Payloads :
              Books("POST", payload) =>
                  IF ~payload.json \/ Blank(payload.title) \/ Blank(payload.authors)
                  THEN resp'.status = 400 /\ store' = store
                  ELSE /\ resp'.status = 201
                       /\ Len(store') = Len(store) + 1
                       /\ Trimmed(store'[Len(store')].title)
                       /\ Trimmed(store'[Len(store')].author)]_vars

\* A POST was refused with 400 after another had stored " a " as "a".
C28_Witness ==
    /\ component = "api"
    /\ resp.status = 400
    /\ Len(store) = 1
    /\ store[1].title = <<"a">> /\ store[1].author = <<"b">>

\* C29: the recording date survives the round trip: each book a response of
\* the API carries, in the answer to the POST that created it and in the
\* answers to later GETs, has a date_recorded equal to the stored one.
C29_DateRecordedRoundTrip ==
    component = "api" =>
        \A i \in DOMAIN resp.books :
            LET book == resp.books[i]
            IN  /\ "date_recorded" \in DOMAIN book
                /\ \E j \in DOMAIN store :
                      /\ store[j]._id = book.id
                      /\ store[j].date_recorded = book.date_recorded

\* C30: in the Capture page with ISBN confirmation no book details are held
\* while the scanner is rendered, whatever the order of the "Record a new
\* book" and "Rescan" clicks, the detections and the completions of a
\* metadata lookup in flight.
C30_NoDetailsWhileScanning ==
    component = "capture" => (scanning => bookData = Null)

====
